---- MODULE Spec2Model ----
(***************************************************************************)
(* Installation check of the MGS2 Community Bugfix Compilation ASI mod:    *)
(* the warning cache (ModWarningCache, LoadCache, SaveCache), the          *)
(* throttling policy (ShouldWarn, RecordWarning) and the startup check     *)
(* VerifyInstallation::Check of src/ASI Mod/src/bugfix_mod_checks.cpp.     *)
(* The file holds two builds of Check(): the one of lines 15-153, which    *)
(* keeps no cache and asks a yes/no question, and the one of lines         *)
(* 297-372, which throttles its pop-ups with the cache.                    *)
(*                                                                         *)
(* Strings are sequences of character codes, the cache file is a sequence  *)
(* of bytes, a length is a number, and a uint32_t warning count is the 4   *)
(* little-endian bytes it occupies in memory, so that all 2^32 values of   *)
(* it exist.                                                               *)
(***************************************************************************)
EXTENDS Integers, Sequences, FiniteSets, TLC

VARIABLES
    pc,          \* position of the process in Check(), "idle" when none runs
    cache,       \* the ModWarningCache object of Check() (line 301)
    file,        \* AfevisMGS2Bugfix_Mod_Warnings.bin: NoFile or FileOf(bytes)
    env,         \* live environment: current path, install date, fix version
    marker,      \* the marker files as this launch has found them so far
    loaded,      \* the cache as LoadCache returned it in this launch
    opened,      \* whether the std::ifstream of this launch opened the file
    persist,     \* fate of the last mutation: "none", "synced", "unsaved"
    sinceShown,  \* whole days since the last RecordWarning (-1: never)
    faults,      \* number of interrupted writes so far
    answer,      \* last ShouldWarn call of the harness: key, max, result
    calls,       \* harness: RecordWarning calls made per key
    trace,       \* what this launch has logged, shown and opened, in order
    ledger       \* pop-ups shown so far, where they are counted (SpecQuota)

vars == <<pc, cache, file, env, marker, loaded, opened, persist, sinceShown,
          faults, answer, calls, trace, ledger>>

----------------------------------------------------------------------------
(* Bounds of the model.                                                    *)

\* Days the clock may advance after a display.
MaxDay == 1
\* Interrupted (partial) writes of the cache file in one behaviour.
MaxFaults == 1
\* RecordWarning calls per key in the policy harness.
MaxCalls == 3
\* Largest maxWarnings the policy harness asks ShouldWarn about.
MaxAsk == 3

----------------------------------------------------------------------------
(* Machine integers and bytes.                                             *)

\* A path at which std::filesystem::exists is false.
Absent == "absent"

\* The cache file: whether it exists, and its bytes.
NoFile == [ exists |-> FALSE, bytes |-> << >> ]
FileOf(b) == [ exists |-> TRUE, bytes |-> b ]

\* Little-endian bytes of a uint32_t, as f.write of &x with sizeof(x) = 4.
LE32(n) ==
    << n % 256, (n \div 256) % 256, (n \div 65536) % 256, (n \div 16777216) % 256 >>

\* The uint32_t held by 4 little-endian bytes.
FromLE32(b) == b[1] + 256 * b[2] + 65536 * b[3] + 16777216 * b[4]

\* ++ on a uint32_t in memory: the carry runs up the bytes and 2^32 - 1
\* wraps to 0.
IncU32(w) ==
    IF w[1] < 255 THEN << w[1] + 1, w[2], w[3], w[4] >>
    ELSE IF w[2] < 255 THEN << 0, w[2] + 1, w[3], w[4] >>
    ELSE IF w[3] < 255 THEN << 0, 0, w[3] + 1, w[4] >>
    ELSE IF w[4] < 255 THEN << 0, 0, 0, w[4] + 1 >>
    ELSE << 0, 0, 0, 0 >>

\* a < b on two uint32_t in memory.
LessU32(a, b) ==
    \/ a[4] < b[4]
    \/ a[4] = b[4] /\ a[3] < b[3]
    \/ a[4] = b[4] /\ a[3] = b[3] /\ a[2] < b[2]
    \/ a[4] = b[4] /\ a[3] = b[3] /\ a[2] = b[2] /\ a[1] < b[1]

RECURSIVE WideBytes(_)
\* The bytes of a wchar_t array (2 bytes per wchar_t, little-endian).
WideBytes(ws) ==
    IF ws = << >> THEN << >>
    ELSE << Head(ws) % 256, Head(ws) \div 256 >> \o WideBytes(Tail(ws))

\* FromWide with the two bytes of each wchar_t taken in the wrong order.
FromWideSwapped(b, n) == [ i \in 1..n |-> 256 * b[2 * i - 1] + b[2 * i] ]

\* The wchar_t array held by 2*n bytes.
FromWide(b, n) == [ i \in 1..n |-> b[2 * i - 1] + 256 * b[2 * i] ]

----------------------------------------------------------------------------
(* The cache object.                                                       *)

\* A default-constructed ModWarningCache.
EmptyCounts == [ k \in {} |-> LE32(0) ]

EmptyCache ==
    [ installPath |-> << >>, installDate |-> << >>, fixVersion |-> << >>,
      warnCounts |-> EmptyCounts ]

\* The three fields compared at startup.
Fingerprint(c) == << c.installPath, c.installDate, c.fixVersion >>

\* CountOf with a missing key counted as shown once.
CountOfMissingOne(c, key) ==
    IF key \in DOMAIN c.warnCounts THEN c.warnCounts[key] ELSE LE32(1)

\* cache.warnCounts.find(key), 0 when the key is missing.
CountOf(c, key) ==
    IF key \in DOMAIN c.warnCounts THEN c.warnCounts[key] ELSE LE32(0)

\* data.warnCounts[key] = count
PutCount(m, key, count) ==
    [ k \in (DOMAIN m) \cup {key} |-> IF k = key THEN count ELSE m[k] ]

----------------------------------------------------------------------------
(* std::ifstream: the read position and the fail bit.                      *)

StreamAt0 == [ pos |-> 0, fail |-> FALSE ]

\* f.read(buf, n) into a zero-filled buffer: the bytes got, the rest left 0;
\* a short read sets failbit, and a failed stream reads nothing.
ReadBytes(f, st, n) ==
    LET avail == IF st.fail THEN 0
                 ELSE IF Len(f) - st.pos < n THEN Len(f) - st.pos ELSE n
    IN  [ buf  |-> [ i \in 1..n |-> IF i <= avail THEN f[st.pos + i] ELSE 0 ],
          st   |-> [ pos  |-> st.pos + avail,
                     fail |-> st.fail \/ avail < n ] ]

\* One length-prefixed wide string of LoadCache: the length, then, when it
\* is not 0, that many wchar_t.
ReadWide(f, st) ==
    LET len  == ReadBytes(f, st, 4)
        n    == FromLE32(len.buf)
        body == ReadBytes(f, len.st, 2 * n)
    IN  IF n = 0 THEN [ val |-> << >>, st |-> len.st ]
        ELSE [ val |-> FromWide(body.buf, n), st |-> body.st ]

RECURSIVE ReadEntries(_, _, _, _)
\* The loop over entryCount entries: key length, key bytes, count.
ReadEntries(f, st, left, m) ==
    IF left = 0 THEN [ val |-> m, st |-> st ]
    ELSE LET klen == ReadBytes(f, st, 4)
             n    == FromLE32(klen.buf)
             key  == ReadBytes(f, klen.st, n)
             cnt  == ReadBytes(f, key.st, 4)
         IN  ReadEntries(f, cnt.st, left - 1,
                         PutCount(m, key.buf, cnt.buf))

\* LoadCache on the bytes of an open file, with the stream's final state.
ParseCache(f) ==
    LET p  == ReadWide(f, StreamAt0)
        d  == ReadWide(f, p.st)
        v  == ReadWide(f, d.st)
        ec == ReadBytes(f, v.st, 4)
        es == ReadEntries(f, ec.st, FromLE32(ec.buf), EmptyCounts)
    IN  [ data |-> [ installPath |-> p.val, installDate |-> d.val,
                     fixVersion |-> v.val, warnCounts |-> es.val ],
          st   |-> es.st ]

\* LoadCache without the test of the stream after it was opened.
LoadCacheStreamUnchecked(fl, opens) ==
    IF ~fl.exists THEN EmptyCache ELSE ParseCache(fl.bytes).data

\* LoadCache(file): a missing file, or one the stream cannot open, gives
\* the default-constructed cache.
LoadCache(fl, opens) ==
    IF ~fl.exists \/ ~opens THEN EmptyCache ELSE ParseCache(fl.bytes).data

\* The file holds one whole serialised cache and nothing else.
WellFormed(fl) ==
    /\ fl.exists
    /\ ~ParseCache(fl.bytes).st.fail
    /\ ParseCache(fl.bytes).st.pos = Len(fl.bytes)

----------------------------------------------------------------------------
(* SaveCache.                                                              *)

\* The orders in which a range-for may visit the keys of an unordered_map.
Orders(S) ==
    { o \in [ 1..Cardinality(S) -> S ] : \A i, j \in 1..Cardinality(S) :
          i # j => o[i] # o[j] }

RECURSIVE EntryBytes(_, _)
\* The bytes of the entries, visited in order o.
EntryBytes(m, o) ==
    IF o = << >> THEN << >>
    ELSE LE32(Len(Head(o))) \o Head(o) \o m[Head(o)]
         \o EntryBytes(m, Tail(o))

\* What SaveCache writes when every write succeeds, visiting keys in order o.
Serialize(data, o) ==
    LE32(Len(data.installPath)) \o WideBytes(data.installPath)
    \o LE32(Len(data.installDate)) \o WideBytes(data.installDate)
    \o LE32(Len(data.fixVersion)) \o WideBytes(data.fixVersion)
    \o LE32(Cardinality(DOMAIN data.warnCounts))
    \o EntryBytes(data.warnCounts, o)

\* The files a complete SaveCache may leave.
SavedFiles(data) ==
    { Serialize(data, o) : o \in Orders(DOMAIN data.warnCounts) }

\* The files a SaveCache cut short (process killed, disk full) may leave:
\* std::ios::trunc empties the file first, then the bytes arrive in order.
CutFiles(data) ==
    UNION { { SubSeq(s, 1, n) : n \in 0..(Len(s) - 1) } : s \in SavedFiles(data) }

\* The possible results of one SaveCache(file, data) call: the file cannot be
\* opened and is left alone, everything is written, or the writing is cut.
SaveCache(fl, data) ==
    { [ file |-> fl, how |-> "noopen" ] }
    \cup { [ file |-> FileOf(s), how |-> "ok" ] : s \in SavedFiles(data) }
    \cup { [ file |-> FileOf(s), how |-> "cut" ] : s \in CutFiles(data) }

----------------------------------------------------------------------------
(* The throttling policy.                                                  *)

\* constexpr uint32_t maxWarnings = 3
maxWarnings == 3

\* The string literal "MGS2_AfevisBugFixCompilation", written here by its
\* first two characters, "MG".
WarnKey == << 77, 71 >>

\* The key the base branch passes to ShouldWarn and RecordWarning.
BaseKey == WarnKey

\* The key the legacy-pack branch passes to ShouldWarn and RecordWarning.
LegacyKey == WarnKey

\* The lookup done with cache.warnCounts[key], which adds a missing key
\* with the count 0.
AfterFindInserting(c, key) ==
    [ c EXCEPT !.warnCounts = PutCount(@, key, CountOf(c, key)) ]

\* The cache after the cache.warnCounts.find(key) of ShouldWarn, which gets
\* the cache by non-const reference: find adds and changes nothing.
AfterFind(c, key) == c

\* ShouldWarn as maxWarnings - count > 0, the difference taken in uint32_t
\* (it wraps instead of stopping at 0, and is 0 only when the two are equal).
ShouldWarnWrapping(c, key, max) == CountOf(c, key) # LE32(max)

\* ShouldWarn with count <= maxWarnings for count < maxWarnings.
ShouldWarnInclusive(c, key, max) == ~LessU32(LE32(max), CountOf(c, key))

\* ShouldWarn(cache, key, maxWarnings)
ShouldWarn(c, key, max) == LessU32(CountOf(c, key), LE32(max))

\* cache.warnCounts[key]++ of RecordWarning, on a uint32_t.
Increment(c, key) ==
    [ c EXCEPT !.warnCounts = PutCount(@, key, IncU32(CountOf(c, key))) ]

----------------------------------------------------------------------------
(* The installation and its environment.                                   *)

\* The digest textures/flatlist/win/col_orange2.bmp.ctxr has when the base
\* package is installed.
BaseGood  == "11d03110d40b42adeafde2fa5f5cf65f27d6fc52"
\* The digests textures/flatlist/ovr_stm/win/col_orange2.bmp.ctxr has in the
\* liqmix 2x and 4x packs.
Liq2x     == "96ba1191c0da112d355bf510dcb3828f1183d1b5"
Liq4x     == "4ecda248b079ee426262a23b64df6cb05a249088"
\* A digest that is none of the literals of Check().
OtherHash == "0000000000000000000000000000000000000000"

\* A path at which std::filesystem::exists(path) throws filesystem_error
\* (the status of the file cannot be had: access denied, device not ready).
FsError == "filesystem_error"

BaseStates == { Absent, BaseGood, OtherHash, FsError }
OvrStates  == { Absent, Liq2x, Liq4x, OtherHash, FsError }

\* Util::SHA1Check(path, digest) on a file that exists.
SHA1Check(digest, expected) == digest = expected

\* BaseMissing without the test that the file exists.
BaseMissingAnyDifference(m) == ~SHA1Check(m.base, BaseGood)

\* The condition of the first if of Check().
BaseMissing(m) == m.base # Absent /\ ~SHA1Check(m.base, BaseGood)

\* LegacyPack with the 2x digest alone compared.
LegacyPack2xOnly(m) == m.ovr # Absent /\ SHA1Check(m.ovr, Liq2x)

\* The condition of the second if of Check().
LegacyPack(m) ==
    m.ovr # Absent /\ (SHA1Check(m.ovr, Liq2x) \/ SHA1Check(m.ovr, Liq4x))

\* current_path(), GetWindowsInstallDate() ("" when the registry read
\* fails) and sFixVersion, as wide strings.
EnvA == << << 67 >>, << 49 >>, << 49 >> >>
Envs ==
    { EnvA,
      << << 68 >>, << 49 >>, << 49 >> >>,
      << << 67 >>, << >>,    << 49 >> >>,
      << << 67 >>, << 49 >>, << 50 >> >> }

----------------------------------------------------------------------------
(* What a launch does to the outside: the lines it logs, the pop-ups it    *)
(* shows, the answers it gets and the links it opens, each with the line   *)
(* of the call.                                                            *)

\* spdlog::warn(text, n) at line site (n is 0 when the text has no {}).
LogLine(site, text, n) == [ kind |-> "log", site |-> site, arg |-> text, n |-> n ]

\* MessageBoxA(..., MB_ICONWARNING | buttons) at line site is on the screen.
MessageBox(site, buttons) ==
    [ kind |-> "box", site |-> site, arg |-> buttons, n |-> 0 ]

\* The MessageBoxA of line site has returned result.
BoxResult(site, result) ==
    [ kind |-> "answer", site |-> site, arg |-> result, n |-> 0 ]

\* ShellExecuteA(nullptr, "open", url, ...) at line site.
ShellExecute(site, url) ==
    [ kind |-> "open", site |-> site, arg |-> url, n |-> 0 ]

\* The banners and messages of the throttled Check(), lines 322-367.
TextBaseMissing == "! Afevis Bugfix Compilation (Base) Missing !"
TextAudioMissing == "! Better Audio Mod Missing !"
TextSkipped == "Skipped MGS2 Better Audio pop-up warning (already shown {} times)"

\* Lines 327-333: the warn path of a branch, up to the pop-up.
WarnPath(logSite, boxSite) ==
    << LogLine(logSite, TextAudioMissing, 0), MessageBox(boxSite, "MB_OK") >>

\* Lines 338-339: the suppressed path of a branch.
SkipPath(logSite) ==
    << LogLine(logSite, TextSkipped, maxWarnings),
       LogLine(logSite + 1, TextAudioMissing, 0) >>

----------------------------------------------------------------------------
(* VerifyInstallation::Check(), one launch of the game after another.      *)

\* The pop-ups of the throttled Check(): how many were put on the screen
\* (counted up to one past maxWarnings), and whether one of them went
\* unrecorded, or a recorded one was not read back. They are counted where
\* the ledger is on, which is in the launches of SpecQuota.
NoLedger == [ on |-> FALSE, shown |-> 0, lost |-> FALSE ]

\* One more pop-up is on the screen.
PopUpShown(l) ==
    IF l.on
    THEN [ l EXCEPT !.shown = IF @ <= maxWarnings THEN @ + 1 ELSE @ ]
    ELSE l

\* A pop-up went unrecorded, or the record of one went unread.
RecordLost(l) == IF l.on THEN [ l EXCEPT !.lost = TRUE ] ELSE l

NoAnswer == [ key |-> << >>, max |-> 0, result |-> FALSE, asked |-> FALSE ]
NoCalls  == << >>

\* A marker file Check() has not looked at yet in this launch.
Unread == "unread"
NoMarker == [ base |-> Unread, ovr |-> Unread, book |-> Unread ]

\* The game is installed with one of the two builds of Check(): "idle" is
\* the throttled build of lines 297-372, "pIdle" the build of lines 15-153.
Init ==
    /\ pc \in { "idle", "pIdle" }
    /\ cache = EmptyCache
    /\ loaded = EmptyCache
    /\ opened = TRUE
    /\ file = NoFile
    /\ env = EnvA
    /\ marker = NoMarker
    /\ persist = "none"
    /\ sinceShown = -1
    /\ faults = 0
    /\ answer = NoAnswer
    /\ calls = NoCalls
    /\ trace = << >>
    /\ ledger = NoLedger

harness == << answer, calls >>

\* Between launches: the user moves or upgrades the installation.
EnvChange ==
    /\ pc = "idle"
    /\ \E e \in Envs \ {env} : env' = e
    /\ UNCHANGED << pc, cache, file, marker, loaded, opened, persist, sinceShown,
                    faults, harness, trace, ledger >>

\* Between launches: a day passes.
Tick ==
    /\ pc = "idle"
    /\ sinceShown >= 0
    /\ sinceShown < MaxDay
    /\ sinceShown' = sinceShown + 1
    /\ UNCHANGED << pc, cache, file, env, marker, loaded, opened, persist, faults,
                    harness, trace, ledger >>

\* Lines 300-301: the game starts and Check() loads the cache.
Launch ==
    /\ pc = "idle"
    /\ \E opens \in BOOLEAN :
          /\ ~file.exists => opens
          /\ opened' = opens
          /\ cache' = LoadCache(file, opens)
          /\ loaded' = LoadCache(file, opens)
          /\ persist' = IF persist = "synced" /\ opens THEN "synced" ELSE "none"
          /\ ledger' = IF opens THEN ledger ELSE RecordLost(ledger)
    /\ pc' = "reconcile"
    /\ UNCHANGED << file, env, marker, sinceShown, faults, harness, trace >>

\* EnvironmentChanged with the path and the install date compared, the fix
\* version left out.
EnvironmentChangedNoVersion(c, e) ==
    c.installPath # e[1] \/ c.installDate # e[2]

\* EnvironmentChanged with the path alone compared.
EnvironmentChangedPathOnly(c, e) == c.installPath # e[1]

\* Line 307: the comparison of the stored and the live environment.
EnvironmentChanged(c, e) ==
    c.installPath # e[1] \/ c.installDate # e[2] \/ c.fixVersion # e[3]

\* Lines 310-313: the reset.
ResetCache(c, e) ==
    [ installPath |-> e[1], installDate |-> e[2], fixVersion |-> e[3],
      warnCounts |-> EmptyCounts ]

\* Lines 303-314.
Reconcile ==
    /\ pc = "reconcile"
    /\ IF EnvironmentChanged(cache, env)
       THEN cache' = ResetCache(cache, env) /\ persist' = "none"
       ELSE UNCHANGED << cache, persist >>
    /\ pc' = "base"
    /\ UNCHANGED << file, env, marker, loaded, opened, sinceShown, faults,
                    harness, trace, ledger >>

\* Lines 320-325 and 336-340: the base marker is read, in whatever state
\* the mod files are, and the check runs up to the pop-up, or past it.
BaseCheck ==
    /\ pc = "base"
    /\ \E b \in BaseStates : marker' = [ marker EXCEPT !.base = b ]
    /\ IF marker'.base = FsError
       THEN pc' = "thrown" /\ trace' = trace
       ELSE IF ~BaseMissing(marker')
       THEN pc' = "liq" /\ trace' = trace
       ELSE IF ShouldWarn(cache, BaseKey, maxWarnings)
       THEN /\ pc' = "baseBox"
            /\ trace' = Append(trace, LogLine(322, TextBaseMissing, 0))
                             \o WarnPath(327, 328)
       ELSE /\ pc' = "liq"
            /\ trace' = Append(trace, LogLine(322, TextBaseMissing, 0))
                             \o SkipPath(338)
    /\ ledger' = IF pc' = "baseBox" THEN PopUpShown(ledger) ELSE ledger
    /\ cache' = IF marker'.base # FsError /\ BaseMissing(marker')
                THEN AfterFind(cache, BaseKey) ELSE cache
    /\ UNCHANGED << file, env, loaded, opened, persist, sinceShown,
                    faults, harness >>

\* RecordWarning with SaveCache called before the increment.
RecordWarningSaveFirst(key, next) ==
    /\ cache' = Increment(cache, key)
    /\ \E o \in SaveCache(file, cache) :
          /\ o.how = "cut" => faults < MaxFaults
          /\ file' = o.file
          /\ persist' = IF o.how = "ok" THEN "synced" ELSE "unsaved"
          /\ faults' = IF o.how = "cut" THEN faults + 1 ELSE faults
    /\ sinceShown' = 0
    /\ pc' = next

\* RecordWarning(cache, file, key): the increment, then SaveCache.
RecordWarning(key, next) ==
    /\ cache' = Increment(cache, key)
    /\ \E o \in SaveCache(file, Increment(cache, key)) :
          /\ o.how = "cut" => faults < MaxFaults
          /\ file' = o.file
          /\ persist' = IF o.how = "ok" THEN "synced" ELSE "unsaved"
          /\ faults' = IF o.how = "cut" THEN faults + 1 ELSE faults
    /\ sinceShown' = 0
    /\ pc' = next

\* Lines 328-334: the user closes the pop-up and the display is recorded.
BaseDismiss ==
    /\ pc = "baseBox"
    /\ trace' = Append(trace, BoxResult(328, "IDOK"))
    /\ RecordWarning(BaseKey, "liq")
    /\ ledger' = IF persist' = "synced" THEN ledger ELSE RecordLost(ledger)
    /\ UNCHANGED << env, marker, loaded, opened, harness >>

\* Lines 349-353 and 364-368.
LegacyCheck ==
    /\ pc = "liq"
    /\ \E o \in OvrStates : marker' = [ marker EXCEPT !.ovr = o ]
    /\ IF marker'.ovr = FsError
       THEN pc' = "thrown" /\ trace' = trace
       ELSE IF ~LegacyPack(marker')
       THEN pc' = "done" /\ trace' = trace
       ELSE IF ShouldWarn(cache, LegacyKey, maxWarnings)
       THEN /\ pc' = "liqBox"
            /\ trace' = Append(trace, LogLine(351, TextBaseMissing, 0))
                             \o WarnPath(355, 356)
       ELSE /\ pc' = "done"
            /\ trace' = Append(trace, LogLine(351, TextBaseMissing, 0))
                             \o SkipPath(366)
    /\ ledger' = IF pc' = "liqBox" THEN PopUpShown(ledger) ELSE ledger
    /\ cache' = IF marker'.ovr # FsError /\ LegacyPack(marker')
                THEN AfterFind(cache, LegacyKey) ELSE cache
    /\ UNCHANGED << file, env, loaded, opened, persist, sinceShown,
                    faults, harness >>

\* Lines 356-362.
LegacyDismiss ==
    /\ pc = "liqBox"
    /\ trace' = Append(trace, BoxResult(356, "IDOK"))
    /\ RecordWarning(LegacyKey, "done")
    /\ ledger' = IF persist' = "synced" THEN ledger ELSE RecordLost(ledger)
    /\ UNCHANGED << env, marker, loaded, opened, harness >>

\* Line 372: Check() returns and the game runs on until it is closed.
Return ==
    /\ pc = "done"
    /\ pc' = "idle"
    /\ marker' = NoMarker
    /\ loaded' = EmptyCache
    /\ opened' = TRUE
    /\ trace' = << >>
    /\ UNCHANGED << cache, file, env, persist, sinceShown, faults, harness, ledger >>

\* The process is killed while Check() runs.
Crash ==
    /\ pc \in { "reconcile", "base", "baseBox", "liq", "liqBox" }
    /\ pc' = "idle"
    /\ marker' = NoMarker
    /\ loaded' = EmptyCache
    /\ opened' = TRUE
    /\ trace' = << >>
    /\ ledger' = IF pc \in { "baseBox", "liqBox" }
                 THEN RecordLost(ledger) ELSE ledger
    /\ UNCHANGED << cache, file, env, persist, sinceShown, faults, harness >>

\* Line 199 (and line 303): std::filesystem::exists(file), or
\* current_path(), throws, and nothing in Check() catches it.
LoadThrows ==
    /\ pc = "idle"
    /\ pc' = "thrown"
    /\ UNCHANGED << cache, file, env, marker, loaded, opened, persist,
                    sinceShown, faults, harness, trace, ledger >>

\* An exception has left Check(): the host process ends with it.
Abort ==
    /\ pc \in { "thrown", "pThrown" }
    /\ pc' = IF pc = "thrown" THEN "idle" ELSE "pIdle"
    /\ marker' = NoMarker
    /\ loaded' = EmptyCache
    /\ opened' = TRUE
    /\ trace' = << >>
    /\ UNCHANGED << cache, file, env, persist, sinceShown, faults, harness, ledger >>

----------------------------------------------------------------------------
(* The Check() of lines 15-153: no cache, a yes/no question in each        *)
(* pop-up, and the load-order check of the 4x upscaled pack.               *)

\* The digest of ovr_stm/_win/col_orange2.bmp.ctxr in the community 4x pack.
Comm4x == "ecf723350dac8790e01ee7470b3e45761e79a939"
\* The digest ovr_stm/ovr_eu/_win/obj_hos_book.bmp.ctxr has when the 4x pack
\* was loaded after the base package.
BookGood == "debb808bec01c4a4e129864294bb68d6b83306fb"

PlainOvrStates == OvrStates \cup { Comm4x }
BookStates == { Absent, BookGood, OtherHash, FsError }

\* The states the three marker files of an installation may be in.
Installations ==
    [ base : BaseStates, ovr : PlainOvrStates, book : BookStates ]

\* Community4x with the load-order test made for any overlay digest.
Community4xAny(m) == TRUE

\* The condition of the else-if of line 100.
Community4x(m) == SHA1Check(m.ovr, Comm4x)

\* The condition of the if of lines 102-103.
LoadOrderViolation(m) == m.book # Absent /\ ~SHA1Check(m.book, BookGood)

\* The banners of lines 26-31, 71-75 and 107-114.
TextPlainBase == "! Community Bugfix Compilation (Base) Missing !"
TextPlainLiqMix == "! Community Bugfix Compilation - Mod Compatibility Issue !"
TextPlainOrder ==
    "! Community Bugfix Compilation (4x Upscaled Pack) Installation Issue !"

\* The URL of the three ShellExecuteA calls.
NexusUrl == "https://www.nexusmods.com/metalgearsolid2mc/mods/52?tab=files"

\* The spdlog::warn calls of lines first..last, banner first and last, the
\* lines between them the sentences of the message.
LogBlock(first, last, text) ==
    [ i \in 1..(last - first + 1) |-> LogLine(first + i - 1, text, 0) ]

\* if (int result = MessageBoxA(...); result == IDYES) ShellExecuteA(...):
\* the user answers the box of line box, and line open opens the link.
AnswerBox(box, open, next) ==
    /\ \E result \in { "IDYES", "IDNO" } :
          trace' = Append(trace, BoxResult(box, result))
                       \o IF result = "IDYES"
                          THEN << ShellExecute(open, NexusUrl) >> ELSE << >>
    /\ pc' = next
    /\ UNCHANGED << cache, file, env, marker, loaded, opened, persist,
                    sinceShown, faults, harness, ledger >>

\* Lines 23-43: the game starts on an installation in some state.
PlainBase ==
    /\ pc = "pIdle"
    /\ \E m \in Installations : marker' = m
    /\ IF marker'.base = FsError
       THEN pc' = "pThrown" /\ trace' = trace
       ELSE IF BaseMissing(marker')
       THEN /\ pc' = "pBaseBox"
            /\ trace' = trace \o LogBlock(26, 31, TextPlainBase)
                             \o << MessageBox(32, "MB_YESNO") >>
       ELSE pc' = "pOvr" /\ trace' = trace
    /\ UNCHANGED << cache, file, env, loaded, opened, persist, sinceShown,
                    faults, harness, ledger >>

\* Lines 44-54.
PlainBaseAnswer == pc = "pBaseBox" /\ AnswerBox(32, 46, "pOvr")

\* Lines 63-84 and 100-127.
PlainOvr ==
    /\ pc = "pOvr"
    /\ IF marker.ovr = FsError
       THEN pc' = "pThrown" /\ trace' = trace
       ELSE IF marker.ovr = Absent
       THEN pc' = "pDone" /\ trace' = trace
       ELSE IF SHA1Check(marker.ovr, Liq2x) \/ SHA1Check(marker.ovr, Liq4x)
       THEN /\ pc' = "pLiqBox"
            /\ trace' = trace \o LogBlock(71, 75, TextPlainLiqMix)
                             \o << MessageBox(76, "MB_YESNO") >>
       ELSE IF ~Community4x(marker)
       THEN pc' = "pDone" /\ trace' = trace
       ELSE IF marker.book = FsError
       THEN pc' = "pThrown" /\ trace' = trace
       ELSE IF LoadOrderViolation(marker)
       THEN /\ pc' = "pOrderBox"
            /\ trace' = trace \o << LogLine(107, TextPlainOrder, 0) >>
                             \o LogBlock(109, 114, TextPlainOrder)
                             \o << MessageBox(116, "MB_YESNO") >>
       ELSE pc' = "pDone" /\ trace' = trace
    /\ UNCHANGED << cache, file, env, marker, loaded, opened, persist,
                    sinceShown, faults, harness, ledger >>

\* Lines 85-95.
PlainLiqAnswer == pc = "pLiqBox" /\ AnswerBox(76, 87, "pDone")

\* Lines 128-138.
PlainOrderAnswer == pc = "pOrderBox" /\ AnswerBox(116, 130, "pDone")

\* Line 153: Check() returns and the game runs on until it is closed.
PlainReturn ==
    /\ pc = "pDone"
    /\ pc' = "pIdle"
    /\ marker' = NoMarker
    /\ trace' = << >>
    /\ UNCHANGED << cache, file, env, loaded, opened, persist, sinceShown,
                    faults, harness, ledger >>

Next ==
    \/ EnvChange
    \/ Tick
    \/ Launch
    \/ Reconcile
    \/ BaseCheck
    \/ BaseDismiss
    \/ LegacyCheck
    \/ LegacyDismiss
    \/ Return
    \/ Crash
    \/ LoadThrows
    \/ Abort
    \/ PlainBase
    \/ PlainBaseAnswer
    \/ PlainOvr
    \/ PlainLiqAnswer
    \/ PlainOrderAnswer
    \/ PlainReturn

Spec == Init /\ [][Next]_vars

----------------------------------------------------------------------------
(* The throttled Check(), launch after launch in one environment that      *)
(* never changes, from an absent cache file, its pop-ups counted.          *)

InitQuota ==
    /\ pc = "idle"
    /\ cache = EmptyCache
    /\ loaded = EmptyCache
    /\ opened = TRUE
    /\ file = NoFile
    /\ env = EnvA
    /\ marker = NoMarker
    /\ persist = "none"
    /\ sinceShown = -1
    /\ faults = 0
    /\ answer = NoAnswer
    /\ calls = NoCalls
    /\ trace = << >>
    /\ ledger = [ NoLedger EXCEPT !.on = TRUE ]

NextQuota ==
    \/ Launch
    \/ Reconcile
    \/ BaseCheck
    \/ BaseDismiss
    \/ LegacyCheck
    \/ LegacyDismiss
    \/ Return
    \/ Crash
    \/ LoadThrows
    \/ Abort

SpecQuota == InitQuota /\ [][NextQuota]_vars

----------------------------------------------------------------------------
(* The policy on one cache object: ShouldWarn and RecordWarning called in  *)
(* any order on a cache that starts fresh, with days passing in between.   *)

\* A second key, for a caller that gives each condition its own.
OtherKey == << 76 >>
UnitKeys == { WarnKey, OtherKey }

InitUnit ==
    /\ pc = "unit"
    /\ cache = EmptyCache
    /\ loaded = EmptyCache
    /\ opened = TRUE
    /\ file = NoFile
    /\ env = EnvA
    /\ marker = NoMarker
    /\ persist = "none"
    /\ sinceShown = -1
    /\ faults = 0
    /\ answer = NoAnswer
    /\ calls = [ k \in UnitKeys |-> 0 ]
    /\ trace = << >>
    /\ ledger = NoLedger

\* ShouldWarn(cache, k, m) is called and its result kept.
UnitShouldWarn ==
    /\ pc = "unit"
    /\ \E k \in UnitKeys, m \in 1..MaxAsk :
          /\ answer' = [ key |-> k, max |-> m,
                         result |-> ShouldWarn(cache, k, m), asked |-> TRUE ]
          /\ cache' = AfterFind(cache, k)
    /\ UNCHANGED << pc, file, env, marker, loaded, opened, persist, sinceShown,
                    faults, calls, trace, ledger >>

\* RecordWarning(cache, file, k) is called.
UnitRecordWarning ==
    /\ pc = "unit"
    /\ \E k \in UnitKeys :
          /\ calls[k] < MaxCalls
          /\ RecordWarning(k, "unit")
          /\ calls' = [ calls EXCEPT ![k] = @ + 1 ]
    /\ answer' = NoAnswer
    /\ UNCHANGED << env, marker, loaded, opened, trace, ledger >>

\* A day passes between two calls.
UnitTick ==
    /\ pc = "unit"
    /\ sinceShown >= 0
    /\ sinceShown < MaxDay
    /\ sinceShown' = sinceShown + 1
    /\ UNCHANGED << pc, cache, file, env, marker, loaded, opened, persist, faults,
                    harness, trace, ledger >>

NextUnit == UnitShouldWarn \/ UnitRecordWarning \/ UnitTick

SpecUnit == InitUnit /\ [][NextUnit]_vars

----------------------------------------------------------------------------
(* SaveCache followed by LoadCache, on any cache of a bounded set.         *)

CodecPaths  == { << >>, << 67 >>, << 67, 321 >> }
CodecDates  == { << >>, << 49 >> }
CodecVers   == { << >>, << 50, 46 >> }
CodecKeys   == { << >>, WarnKey, << 0, 76 >> }
CodecCounts == { LE32(0), LE32(3), LE32(256), << 255, 255, 255, 255 >> }

CodecCaches ==
    { [ installPath |-> p, installDate |-> d, fixVersion |-> v, warnCounts |-> m ] :
        p \in CodecPaths, d \in CodecDates, v \in CodecVers,
        m \in UNION { [ K -> CodecCounts ] : K \in SUBSET CodecKeys } }

InitCodec ==
    /\ pc = "codec"
    /\ cache \in CodecCaches
    /\ loaded = EmptyCache
    /\ opened = TRUE
    /\ file = NoFile
    /\ env = EnvA
    /\ marker = NoMarker
    /\ persist = "none"
    /\ sinceShown = -1
    /\ faults = 0
    /\ answer = NoAnswer
    /\ calls = NoCalls
    /\ trace = << >>
    /\ ledger = NoLedger

\* SaveCache(file, cache), every write of it succeeding.
CodecSave ==
    /\ pc = "codec"
    /\ \E o \in SaveCache(file, cache) : o.how = "ok" /\ file' = o.file
    /\ pc' = "saved"
    /\ UNCHANGED << cache, env, marker, loaded, opened, persist, sinceShown, faults,
                    harness, trace, ledger >>

\* LoadCache(file) on the file just written.
CodecLoad ==
    /\ pc = "saved"
    /\ loaded' = LoadCache(file, TRUE)
    /\ pc' = "reloaded"
    /\ UNCHANGED << cache, file, env, marker, opened, persist, sinceShown,
                    faults, harness, trace, ledger >>

\* ShouldWarn(cache, k, m) on the cache LoadCache returned.
CodecShouldWarn ==
    /\ pc = "reloaded"
    /\ \E k \in CodecKeys, m \in 1..MaxAsk :
          /\ answer' = [ key |-> k, max |-> m,
                         result |-> ShouldWarn(loaded, k, m), asked |-> TRUE ]
          /\ loaded' = AfterFind(loaded, k)
    /\ pc' = "asked"
    /\ UNCHANGED << cache, file, env, marker, opened, persist,
                    sinceShown, faults, calls, trace, ledger >>

NextCodec == CodecSave \/ CodecLoad \/ CodecShouldWarn

SpecCodec == InitCodec /\ [][NextCodec]_vars

----------------------------------------------------------------------------
(* Properties of the policy on one cache object (SpecUnit).                *)

\* The budget of a key is used up: its count has reached maxWarnings.
Exhausted(c, key) == ~LessU32(CountOf(c, key), LE32(maxWarnings))

\* C1: on a cache that started fresh, once RecordWarning has been called
\* exactly maxWarnings = 3 times for a key, the count of the key is 3, the
\* budget is used up (the state the cache has for "initial phase complete")
\* and ShouldWarn(key, 3) is false, however many days passed between the
\* calls and whatever became of the saves.
C1_ThreeDisplaysExhaust ==
    \A k \in UnitKeys :
        calls[k] = maxWarnings =>
            /\ CountOf(cache, k) = LE32(maxWarnings)
            /\ Exhausted(cache, k)
            /\ ~ShouldWarn(cache, k, maxWarnings)
            /\ (answer.asked /\ answer.key = k /\ answer.max = maxWarnings)
                   => ~answer.result

\* ShouldWarn is asked right after the third RecordWarning of a key.
C1_Witness ==
    /\ pc = "unit"
    /\ calls[WarnKey] = maxWarnings
    /\ sinceShown = 0
    /\ answer.asked /\ answer.key = WarnKey /\ answer.max = maxWarnings
    /\ ~answer.result

\* C2: on a fresh cache (no entry), for every key and every maxWarnings > 0,
\* the count is 0, so that maxWarnings - count = maxWarnings warnings remain,
\* and ShouldWarn is true.
C2_FreshCacheWarns ==
    cache.warnCounts = EmptyCounts =>
        /\ \A k \in UnitKeys, m \in 1..MaxAsk :
              /\ m - FromLE32(CountOf(cache, k)) = m
              /\ ShouldWarn(cache, k, m)
        /\ answer.asked => answer.result

\* ShouldWarn has been asked on the fresh cache with the smallest budget.
C2_Witness ==
    /\ pc = "unit"
    /\ cache = EmptyCache
    /\ answer.asked /\ answer.key = OtherKey /\ answer.max = 1
    /\ answer.result

----------------------------------------------------------------------------
(* Properties of SaveCache and LoadCache (SpecCodec).                      *)

\* C7: LoadCache of the file a complete SaveCache wrote returns the saved
\* cache, field for field: the three environment strings and every key
\* with its count.
C7_SaveLoadRoundTrip ==
    pc = "reloaded" =>
        /\ loaded.installPath = cache.installPath
        /\ loaded.installDate = cache.installDate
        /\ loaded.fixVersion = cache.fixVersion
        /\ DOMAIN loaded.warnCounts = DOMAIN cache.warnCounts
        /\ \A k \in DOMAIN cache.warnCounts :
              loaded.warnCounts[k] = cache.warnCounts[k]
        /\ WellFormed(file)

\* A cache with a two-character path, three keys (one of them empty) and
\* the largest count has been saved and loaded back.
C7_Witness ==
    /\ pc = "reloaded"
    /\ cache.installPath = << 67, 321 >>
    /\ DOMAIN cache.warnCounts = CodecKeys
    /\ cache.warnCounts[WarnKey] = << 255, 255, 255, 255 >>
    /\ loaded = cache

\* C21: for every count LoadCache read back from the file, the counts at
\* and above maxWarnings and the largest uint32_t among them, ShouldWarn is
\* true exactly when the count is one of 0 .. maxWarnings - 1, that is when
\* maxWarnings - count, stopped at 0, is above 0: nothing wraps around.
C21_NoWrapAround ==
    /\ pc \in { "reloaded", "asked" } =>
          \A k \in CodecKeys, m \in 1..MaxAsk :
              ShouldWarn(loaded, k, m)
                  <=> \E i \in 0..(m - 1) : CountOf(loaded, k) = LE32(i)
    /\ pc = "asked" =>
          (answer.result
               <=> \E i \in 0..(answer.max - 1) :
                       CountOf(loaded, answer.key) = LE32(i))

\* ShouldWarn was asked about a key whose count, read back from the file,
\* is the largest uint32_t, and said no.
C21_Witness ==
    /\ pc = "asked"
    /\ answer.key = WarnKey
    /\ answer.max = maxWarnings
    /\ WarnKey \in DOMAIN loaded.warnCounts
    /\ loaded.warnCounts[WarnKey] = << 255, 255, 255, 255 >>
    /\ ~answer.result

----------------------------------------------------------------------------
(* Properties of the startup check over launches (Spec).                   *)

\* Check() is past the comparison with the live environment.
InCheck == pc \in { "base", "baseBox", "liq", "liqBox", "done" }

\* A pop-up is on the screen.
PopUp == pc \in { "baseBox", "liqBox" }

C4_ConditionsIndependent ==
    [][ (pc = "baseBox" /\ pc' = "liq")
            => CountOf(cache', LegacyKey) = CountOf(cache, LegacyKey) ]_vars

\* C5: when Check() consults or records a warning, the cache carries the
\* live environment; if the loaded cache carried another one, nothing of
\* what was loaded is left (the cache is empty when the first condition is
\* evaluated, and holds only what this launch recorded afterwards); if it
\* carried the live one, every loaded entry is still there, with a count
\* not below the loaded one.
C5_ResetBeforeUse ==
    InCheck =>
        /\ Fingerprint(cache) = env
        /\ Fingerprint(loaded) # env =>
              /\ pc = "base" => cache.warnCounts = EmptyCounts
              /\ DOMAIN cache.warnCounts \subseteq { BaseKey, LegacyKey }
              /\ \A k \in DOMAIN cache.warnCounts :
                    LessU32(cache.warnCounts[k], LE32(maxWarnings))
        /\ Fingerprint(loaded) = env =>
              /\ pc = "base" => cache = loaded
              /\ \A k \in DOMAIN loaded.warnCounts :
                    /\ k \in DOMAIN cache.warnCounts
                    /\ ~LessU32(cache.warnCounts[k], loaded.warnCounts[k])

\* A cache with a used-up budget recorded under another fix version has
\* been loaded and reset, and the first condition is about to be evaluated.
C5_Witness ==
    /\ pc = "base"
    /\ Exhausted(loaded, WarnKey)
    /\ loaded.installPath = env[1]
    /\ loaded.installDate = env[2]
    /\ loaded.fixVersion # env[3]
    /\ cache.warnCounts = EmptyCounts

\* C6: at the end of a launch that found another environment in the loaded
\* cache, the file holds the live environment.
C6_ResetIsPersisted ==
    (pc = "done" /\ Fingerprint(loaded) # env)
        => (WellFormed(file) /\ Fingerprint(LoadCache(file, TRUE)) = env)

\* C8: LoadCache of a file that is not one whole serialised cache returns
\* the empty cache.
C8_DamagedFileLoadsEmpty ==
    (pc = "reconcile" /\ file.exists /\ opened /\ ~WellFormed(file))
        => cache = EmptyCache

\* Some count of cache c is below the count the same key has in cache b.
Lowered(b, c) ==
    \E k \in DOMAIN b.warnCounts : LessU32(CountOf(c, k), CountOf(b, k))

\* The step of Check() that resets the cache on an environment change.
ResetStep == pc = "reconcile" /\ EnvironmentChanged(cache, env)

\* C9, as the spec states it: no step lowers the count of a key, or takes a
\* key back out of the used-up state, but the reset on an environment
\* change.
C9_OnlyResetLowers ==
    [][ Lowered(cache, cache') => ResetStep ]_vars

\* C9, amended: no step lowers the count of a key, or takes a key back out of
\* the used-up state, but the reset on an environment change and the
\* LoadCache of a launch that follows a failed or interrupted save (the file
\* then lags the counts in memory, or is damaged) or that cannot open the
\* file.
C9_ResetOrLostSaveLowers ==
    [][ /\ Lowered(cache, cache')
              => \/ ResetStep
                 \/ pc = "idle" /\ pc' = "reconcile"
                       /\ (persist = "unsaved" \/ ~opened')
        /\ (Exhausted(cache, WarnKey) /\ ~Exhausted(cache', WarnKey))
              => Lowered(cache, cache') ]_vars

\* A launch loaded the count 2 its predecessors had saved and recorded the
\* third display.
C9_Witness ==
    /\ pc = "liq"
    /\ ~EnvironmentChanged(loaded, env)
    /\ CountOf(loaded, WarnKey) = LE32(2)
    /\ CountOf(cache, WarnKey) = LE32(3)

\* C10: from the moment a RecordWarning has written the whole file, the file
\* is one whole serialised cache and LoadCache of it gives the cache in
\* memory; this stays so when Check() goes on, returns or is killed, and in
\* the next launch, when that opens the file.
C10_WriteThrough ==
    persist = "synced" => (WellFormed(file) /\ LoadCache(file, TRUE) = cache)

\* The launch after one that was killed or returned with two displays
\* recorded and saved has loaded exactly those two.
C10_Witness ==
    /\ pc = "reconcile"
    /\ opened
    /\ persist = "synced"
    /\ CountOf(cache, WarnKey) = LE32(2)
    /\ loaded = cache

----------------------------------------------------------------------------
(* Properties of what a launch logs, shows and records (Spec, both builds  *)
(* of Check()).                                                            *)

\* Line site has logged in this launch.
Logged(site) ==
    \E i \in DOMAIN trace : trace[i].kind = "log" /\ trace[i].site = site

\* The pop-up of line site has been put on the screen in this launch.
Shown(site) ==
    \E i \in DOMAIN trace : trace[i].kind = "box" /\ trace[i].site = site

\* This step is the user answering the pop-up that is on the screen.
Answered ==
    /\ Len(trace') > Len(trace)
    /\ trace'[Len(trace) + 1].kind = "answer"

\* A marker file that is there and has a digest.
HasDigest(f) == f \notin { Unread, Absent, FsError }

\* C11: every pop-up the user has answered is followed at once, before the
\* next condition is looked at, by the increment of the count of the
\* condition's key and by a SaveCache of it.
C11_AnsweredPopUpIsRecorded ==
    [][ Answered =>
            /\ \E k \in { BaseKey, LegacyKey } :
                   CountOf(cache', k) = IncU32(CountOf(cache, k))
            /\ persist' \in { "synced", "unsaved" } ]_vars

\* The key the spec gives the legacy-pack condition, "LiqMixAISlop", written
\* by its first two characters.
LiqMixAISlop == << 76, 105 >>

\* C12: a launch on a fresh cache that found the overlay marker with the
\* digest 96ba... and showed the legacy-pack pop-up ends with the count 1
\* under the key "LiqMixAISlop", and ShouldWarn still true for that key.
C12_LegacyCountsUnderOwnKey ==
    (pc = "done" /\ loaded = EmptyCache /\ marker.ovr = Liq2x /\ Shown(356))
        => /\ CountOf(cache, LiqMixAISlop) = LE32(1)
           /\ ShouldWarn(cache, LiqMixAISlop, maxWarnings)

\* The base branch of Check() has been entered in this launch.
BaseDetected == Logged(26) \/ Logged(322)

\* C13: once a launch has looked at the base marker, it has found the
\* base-package-missing condition true (and entered the branch, whose first
\* line it logged) exactly when the file is there with a digest that is not
\* 11d03110d40b42adeafde2fa5f5cf65f27d6fc52; an absent file and a file with
\* that digest give false, and a pop-up of the branch is only ever shown
\* when the condition is true.
C13_BaseMissingCondition ==
    /\ marker.base # Unread =>
          (BaseDetected <=> (HasDigest(marker.base) /\ marker.base # BaseGood))
    /\ marker.base \in { Absent, BaseGood } =>
          (~BaseDetected /\ ~Shown(32) /\ ~Shown(328))
    /\ marker.base = Unread => ~BaseDetected

\* The throttled Check() found the base marker with a wrong digest and put
\* the pop-up on the screen.
C13_Witness ==
    /\ pc = "baseBox"
    /\ marker.base = OtherHash
    /\ Logged(322)
    /\ Shown(328)

\* The legacy-pack branch of Check() has been entered in this launch.
LegacyDetected == Logged(71) \/ Logged(351)

\* Check() is past its test of the overlay marker.
OvrEvaluated == pc \in { "liqBox", "done", "pLiqBox", "pOrderBox", "pDone" }

\* C14: once a launch has tested the overlay marker, it has found the
\* legacy-pack condition true (and entered the branch, whose first line it
\* logged) exactly when the file is there with one of the digests
\* 96ba1191c0da112d355bf510dcb3828f1183d1b5 and
\* 4ecda248b079ee426262a23b64df6cb05a249088; any other digest and an absent
\* file give false.
C14_LegacyPackCondition ==
    /\ OvrEvaluated =>
          (LegacyDetected <=> (HasDigest(marker.ovr)
                                  /\ marker.ovr \in { Liq2x, Liq4x }))
    /\ (OvrEvaluated /\ marker.ovr \in { Absent, OtherHash, Comm4x }) =>
          (~LegacyDetected /\ ~Shown(76) /\ ~Shown(356))
    /\ ~OvrEvaluated => ~LegacyDetected

\* The throttled Check() found the overlay marker with the 4x digest of the
\* legacy pack and put the pop-up on the screen.
C14_Witness ==
    /\ pc = "liqBox"
    /\ marker.ovr = Liq4x
    /\ Logged(351)
    /\ Shown(356)

\* C15: a launch that found the overlay marker present, whatever its
\* digest, and the obj_hos_book texture present with a digest other than
\* debb808bec01c4a4e129864294bb68d6b83306fb, has found the load-order
\* violation (and logged the first line of its branch).
C15_LoadOrderForEveryOverlay ==
    (pc = "pDone" /\ HasDigest(marker.ovr) /\ HasDigest(marker.book)
         /\ marker.book # BookGood)
        => Logged(107)

\* C16: no exception leaves Check(): whatever the file system does to the
\* probes of the marker files and to the cache file, Check() goes on to
\* its return.
C16_CheckReturnsNormally == pc \notin { "thrown", "pThrown" }

\* C17: a RecordWarning whose SaveCache could not open the file, or was cut
\* short, logs the failure.
C17_SaveFailureLogged ==
    [][ (Answered /\ persist' = "unsaved")
            => \E i \in (Len(trace) + 1)..Len(trace') :
                   trace'[i].kind = "log" ]_vars

\* C18: LoadCache of a cache file that is absent, or that cannot be opened,
\* returns the empty cache, with no entries; and a launch that loaded the
\* empty cache shows the pop-up of every condition it finds true.
C18_AbsentStoreIsFresh ==
    [][ /\ (pc = "idle" /\ pc' = "reconcile" /\ (~file.exists \/ ~opened'))
              => (cache' = EmptyCache /\ loaded' = EmptyCache
                     /\ cache'.warnCounts = EmptyCounts)
        /\ (pc = "base" /\ loaded = EmptyCache /\ HasDigest(marker'.base)
               /\ marker'.base # BaseGood)
              => (pc' = "baseBox" /\ Shown(328)')
        /\ (pc = "liq" /\ loaded = EmptyCache
               /\ marker'.ovr \in { Liq2x, Liq4x })
              => (pc' = "liqBox" /\ Shown(356)') ]_vars

\* A launch could not open the cache file its predecessors had written: it
\* loaded the empty cache, found both conditions true and has shown the
\* pop-up of the first and put up the pop-up of the second.
C18_Witness ==
    /\ pc = "liqBox"
    /\ file.exists
    /\ ~opened
    /\ loaded = EmptyCache
    /\ Shown(328)
    /\ Shown(356)

\* The log texts that name the condition the pop-up of line site is for:
\* the missing base package (lines 32, 328), the legacy pack (76, 356), the
\* load order of the 4x pack (116).
TextsNaming(site) ==
    IF site \in { 32, 328 } THEN { TextPlainBase, TextBaseMissing }
    ELSE IF site \in { 76, 356 } THEN { TextPlainLiqMix }
    ELSE { TextPlainOrder }

\* C19: before a pop-up is put on the screen the log has a line that names
\* the condition the pop-up is for; and a suppressed pop-up has its
\* condition and the reason (shown maxWarnings times already) in the log.
C19_ConditionLoggedBeforePopUp ==
    /\ \A i \in DOMAIN trace :
          trace[i].kind = "box" =>
              \E j \in 1..(i - 1) :
                  /\ trace[j].kind = "log"
                  /\ trace[j].arg \in TextsNaming(trace[i].site)
    /\ \A i \in DOMAIN trace :
          (trace[i].kind = "log" /\ trace[i].arg = TextSkipped) =>
              /\ trace[i].n = maxWarnings
              /\ i > 1
              /\ trace[i - 1].kind = "log"
              /\ trace[i - 1].arg
                     \in TextsNaming(IF trace[i].site = 338 THEN 328 ELSE 356)

\* C20: every pop-up asks a yes/no question, and ShellExecuteA opens the
\* download page exactly when the answer is yes: right after that answer,
\* and at no other point.
C20_YesNoAndLink ==
    \A i \in DOMAIN trace :
        /\ trace[i].kind = "box" => trace[i].arg = "MB_YESNO"
        /\ trace[i].kind = "answer" =>
              /\ trace[i].arg \in { "IDYES", "IDNO" }
              /\ trace[i].arg = "IDYES" =>
                    /\ i < Len(trace)
                    /\ trace[i + 1] = ShellExecute(trace[i + 1].site, NexusUrl)
        /\ trace[i].kind = "open" =>
              /\ i > 1
              /\ trace[i - 1].kind = "answer"
              /\ trace[i - 1].arg = "IDYES"

\* The cache differs from the live environment in field i alone.
OnlyFieldDiffers(c, e, i) ==
    \A j \in 1..3 : (Fingerprint(c)[j] # e[j]) <=> (j = i)

\* C23: the comparison of lines 307-314 covers the path, the install date
\* and the fix version: when the loaded cache differs from the live
\* environment in one of the three alone, the fix version in particular,
\* the step clears every count and stores the live environment, and the
\* launch then shows the pop-up of a condition it finds true, though the
\* budget of the loaded cache was used up.
C23_VersionChangeResets ==
    [][ /\ (pc = "reconcile" /\ pc' = "base"
               /\ \E i \in 1..3 : OnlyFieldDiffers(cache, env, i))
              => /\ cache'.warnCounts = EmptyCounts
                 /\ Fingerprint(cache') = env
        /\ (pc = "base" /\ OnlyFieldDiffers(loaded, env, 3)
               /\ HasDigest(marker'.base) /\ marker'.base # BaseGood)
              => (pc' = "baseBox" /\ Shown(328)') ]_vars

\* After an upgrade of the mod (the loaded cache has the live path and
\* install date and another fix version, and its budget was used up) the
\* pop-up for the missing base package is on the screen again.
C23_Witness ==
    /\ pc = "baseBox"
    /\ OnlyFieldDiffers(loaded, env, 3)
    /\ Exhausted(loaded, WarnKey)
    /\ cache.warnCounts = EmptyCounts
    /\ Shown(328)

\* This step took the suppressed path of a branch: it logged the skipped
\* pop-up.
SuppressedStep ==
    /\ Len(trace') > Len(trace)
    /\ \E i \in (Len(trace) + 1)..Len(trace') :
          trace'[i].kind = "log" /\ trace'[i].arg = TextSkipped

\* C24: the step of Check() that evaluates a condition and calls ShouldWarn
\* leaves the cache as it was, entries and counts, and does not write the
\* file, whatever ShouldWarn answers; and when the answer is no, the step
\* puts no pop-up on the screen and goes on to the next condition.
C24_SuppressedChangesNothing ==
    [][ /\ pc \in { "base", "liq" }
              => (cache' = cache /\ file' = file /\ persist' = persist)
        /\ SuppressedStep
              => /\ pc \in { "base", "liq" }
                 /\ pc' \in { "liq", "done" }
                 /\ ~PopUp'
                 /\ \A i \in (Len(trace) + 1)..Len(trace') :
                        trace'[i].kind = "log"
                 /\ cache'.warnCounts = cache.warnCounts
                 /\ file' = file ]_vars

\* A launch loaded a used-up budget, found the base package missing and
\* went past the branch on the suppressed path: no pop-up, and the cache is
\* the one it loaded.
C24_Witness ==
    /\ pc = "liq"
    /\ Logged(338)
    /\ ~Shown(328)
    /\ Exhausted(cache, WarnKey)
    /\ cache = loaded
    /\ persist = "synced"

\* The Check() of lines 15-153 is running.
InPlainCheck ==
    pc \in { "pBaseBox", "pOvr", "pLiqBox", "pOrderBox", "pDone", "pThrown" }

\* The pop-ups this launch has put on the screen.
PopUpsShown == { i \in DOMAIN trace : trace[i].kind = "box" }

----------------------------------------------------------------------------
(* Properties of the pop-up budget in an unchanged environment             *)
(* (SpecQuota).                                                            *)

\* No count of cache c is above maxWarnings.
WithinBudget(c) ==
    \A k \in DOMAIN c.warnCounts :
        \E i \in 0..maxWarnings : c.warnCounts[k] = LE32(i)

====
